---- MODULE Spec2Model ----
(***************************************************************************)
(* Model of the crawl scheduler and reference resolver of the SingleFile   *)
(* command line tool (src/cli/single-file).                                *)
(*                                                                         *)
(* JavaScript strings are sequences of one-character strings, so that the  *)
(* string functions of the program (trim, split, replace, startsWith, the  *)
(* regular expressions) are computed rather than assumed.                  *)
(***************************************************************************)
EXTENDS Integers, Sequences, FiniteSets, TLC

(***************************************************************************)
(* Bounds of the model.                                                    *)
(***************************************************************************)
MaxWorkers == 2
MaxDepth == 1
MaxLinks == 2
MaxTasks == 4
MaxFiles == 3
MaxFragments == 2
MaxMessages == 3

(***************************************************************************)
(* JavaScript string primitives.                                           *)
(***************************************************************************)
Min(a, b) == IF a < b THEN a ELSE b

\* the value of a property that was never assigned (task.filename, pageData)
Undefined == <<"undefined">>

IsSpace(c) == c \in {" ", "\t", "\n", "\r"}

RECURSIVE TrimStart(_)
TrimStart(s) ==
    IF s # <<>> /\ IsSpace(Head(s)) THEN TrimStart(Tail(s)) ELSE s

RECURSIVE TrimEnd(_)
TrimEnd(s) ==
    IF s # <<>> /\ IsSpace(s[Len(s)]) THEN TrimEnd(SubSeq(s, 1, Len(s) - 1)) ELSE s

\* String.prototype.trim
trim(s) == TrimEnd(TrimStart(s))

\* String.prototype.startsWith
startsWith(s, p) == Len(p) <= Len(s) /\ SubSeq(s, 1, Len(p)) = p

\* index of the first element of s equal to c, 0 when there is none
IndexOf(s, c) ==
    IF \E i \in 1..Len(s) : s[i] = c
    THEN CHOOSE i \in 1..Len(s) : s[i] = c /\ \A j \in 1..(i - 1) : s[j] # c
    ELSE 0

\* index of the last element of s equal to c, 0 when there is none
LastIndexOf(s, c) ==
    IF \E i \in 1..Len(s) : s[i] = c
    THEN CHOOSE i \in 1..Len(s) : s[i] = c /\ \A j \in (i + 1)..Len(s) : s[j] # c
    ELSE 0

\* String.prototype.split with a one-character separator
RECURSIVE split(_, _)
split(s, c) ==
    LET i == IndexOf(s, c)
    IN  IF i = 0 THEN <<s>>
        ELSE <<SubSeq(s, 1, i - 1)>> \o split(SubSeq(s, i + 1, Len(s)), c)

RECURSIVE SkipSpaces(_)
SkipSpaces(s) == IF s # <<>> /\ Head(s) = " " THEN SkipSpaces(Tail(s)) ELSE s

\* String.prototype.split(/ +/)
RECURSIVE splitSpaces(_)
splitSpaces(s) ==
    LET i == IndexOf(s, " ")
    IN  IF i = 0 THEN <<s>>
        ELSE <<SubSeq(s, 1, i - 1)>> \o splitSpaces(SkipSpaces(SubSeq(s, i, Len(s))))

\* String.prototype.toLowerCase on the letters the model uses
Lower(c) ==
    CASE c = "A" -> "a"
      [] c = "B" -> "b"
      [] c = "H" -> "h"
      [] c = "X" -> "x"
      [] c = "T" -> "t"
      [] c = "P" -> "p"
      [] c = "G" -> "g"
      [] c = "E" -> "e"
      [] OTHER -> c

\* decimal digits of a natural number ("" + n)
RECURSIVE IntToStr(_)
IntToStr(n) ==
    LET digit == <<"0", "1", "2", "3", "4", "5", "6", "7", "8", "9">>[(n % 10) + 1]
    IN  IF n < 10 THEN <<digit>> ELSE IntToStr(n \div 10) \o <<digit>>

(***************************************************************************)
(* Regular expressions.  A compiled pattern is a sequence of tokens; the   *)
(* patterns the model builds use ordinary characters, "." (any character   *)
(* but a line terminator) and "\c" (the character c itself).               *)
(***************************************************************************)
RECURSIVE RegExp(_)
RegExp(src) ==
    IF src = <<>> THEN <<>>
    ELSE IF Head(src) = "\\" /\ Len(src) >= 2
         THEN <<[any |-> FALSE, ch |-> src[2]]>> \o RegExp(SubSeq(src, 3, Len(src)))
    ELSE IF Head(src) = "."
         THEN <<[any |-> TRUE, ch |-> "."]>> \o RegExp(Tail(src))
    ELSE <<[any |-> FALSE, ch |-> Head(src)]>> \o RegExp(Tail(src))

\* the pattern matches s at index i (ignoreCase is the "i" flag)
MatchesAt(s, re, i, ignoreCase) ==
    /\ i + Len(re) - 1 <= Len(s)
    /\ \A k \in 1..Len(re) :
        LET c == s[i + k - 1]
        IN  IF re[k].any THEN c \notin {"\n", "\r"}
            ELSE IF ignoreCase THEN Lower(c) = Lower(re[k].ch)
            ELSE c = re[k].ch

\* index of the first match at or after index from, 0 when there is none
RECURSIVE FirstMatch(_, _, _, _)
FirstMatch(s, re, from, ignoreCase) ==
    IF from > Len(s) THEN 0
    ELSE IF MatchesAt(s, re, from, ignoreCase) THEN from
    ELSE FirstMatch(s, re, from + 1, ignoreCase)

\* the replacement patterns of String.prototype.replace: $$ $& $'
\* (before is the text the pattern with a backtick stands for; no string of
\* the model holds a backtick)
RECURSIVE Expand(_, _, _, _)
Expand(repl, before, matched, after) ==
    IF repl = <<>> THEN <<>>
    ELSE IF Head(repl) = "$" /\ Len(repl) >= 2 /\ repl[2] \in {"$", "&", "'"}
         THEN (CASE repl[2] = "$" -> <<"$">>
                 [] repl[2] = "&" -> matched
                 [] repl[2] = "'" -> after)
              \o Expand(SubSeq(repl, 3, Len(repl)), before, matched, after)
    ELSE <<Head(repl)>> \o Expand(Tail(repl), before, matched, after)

\* s.replace(re, repl) without the "g" flag: the first match only
replaceFirst(s, re, repl, ignoreCase) ==
    LET i == FirstMatch(s, re, 1, ignoreCase)
    IN  IF i = 0 THEN s
        ELSE LET before == SubSeq(s, 1, i - 1)
                 matched == SubSeq(s, i, i + Len(re) - 1)
                 after == SubSeq(s, i + Len(re), Len(s))
             IN  before \o Expand(repl, before, matched, after) \o after

\* s.replace(re, repl) with the "g" flag: every match, left to right; the
\* $' of a replacement refers to the whole subject string
RECURSIVE ReplaceFrom(_, _, _, _, _)
ReplaceFrom(s, re, repl, ignoreCase, from) ==
    LET i == FirstMatch(s, re, from, ignoreCase)
    IN  IF i = 0 \/ re = <<>> THEN SubSeq(s, from, Len(s))
        ELSE SubSeq(s, from, i - 1)
             \o Expand(repl, SubSeq(s, 1, i - 1), SubSeq(s, i, i + Len(re) - 1),
                       SubSeq(s, i + Len(re), Len(s)))
             \o ReplaceFrom(s, re, repl, ignoreCase, i + Len(re))

\* a replace whose result is dropped (strings are immutable)
replaceDropped(s, re, repl, ignoreCase) == s

replaceAll(s, re, repl, ignoreCase) == ReplaceFrom(s, re, repl, ignoreCase, 1)

(***************************************************************************)
(* The strings of the model.                                               *)
(***************************************************************************)
Str_http == <<"h", "t", "t", "p", ":", "/", "/">>
Str_https == <<"h", "t", "t", "p", "s", ":", "/", "/">>
Str_file == <<"f", "i", "l", "e", ":", "/", "/">>

UrlA == Str_http \o <<"a">>                    \* http://a
UrlAX == Str_http \o <<"a", "/", "x">>         \* http://a/x
UrlB == Str_http \o <<"b">>                    \* http://b

\* the links a captured page may hold
LinkUrls == {UrlA, UrlAX, UrlB}

\* urls with a port and with credentials, and the links of their pages
UrlAPort == Str_http \o <<"a", ":", "8", "/">>                     \* http://a:8/
UrlUser == Str_http \o <<"u", "@", "a">>                           \* http://u@a
UrlUserPw == Str_http \o <<"u", ":", "p", "@", "a">>               \* http://u:p@a
UrlAB == Str_http \o <<"a", "b">>                                  \* http://ab
UrlUserX == Str_http \o <<"u", "@", "a", "/", "x">>                \* http://u@a/x
UrlUserPwX == Str_http \o <<"u", ":", "p", "@", "a", "/", "x">>    \* http://u:p@a/x
UrlUpX == Str_http \o <<"u", "p", "@", "a", "/", "x">>             \* http://up@a/x
ParentUrls == {UrlA, UrlAPort, UrlUser, UrlUserPw}
HostLinkUrls == {UrlAX, UrlB, UrlAB, UrlUserX, UrlUserPwX, UrlUpX}

\* --url-rewrite-rules values: "b a" maps http://b onto http://a;
\* "http://a $'" replaces the first http://a by the text that follows it, so
\* that http://a becomes the empty string and http://a/x becomes /x/x
RuleBtoA == <<"b", " ", "a">>
RuleDropA == UrlA \o <<" ", "$", "'">>
RuleSets == {<<>>, <<RuleBtoA>>, <<RuleDropA>>}

\* file names: the --output option and the names the backend gives to pages
NameA == <<"a", ".", "h">>        \* a.h
NameB == <<"b", " ", "b">>        \* "b b", a name with a space and no extension
NameOut == <<"o">>                \* o
NameHtml == <<"p", ".", "h", "t", "m", "l">>                            \* p.html
NameHtml3 == <<"p", " ", "-", " ", "3", ".", "h", "t", "m", "l">>      \* p - 3.html
NameAmp == <<"a", ".", "$", "&">>                                       \* a.$&

\* the page behind a url: its content and the file name the backend derives
\* from its title (the pages http://a and http://a/x have the same title)
ContentQuoted == <<"\"">> \o UrlB \o <<"\"">>        \* "http://b"
ContentBare == <<"=">> \o UrlAX \o <<">">>            \* =http://a/x>
PageContent(url) == IF url = UrlB THEN ContentBare ELSE ContentQuoted
PageFilename(url) == IF url = UrlB THEN NameB ELSE NameA

\* contents of the --urls-file file
NL == <<"\n">>
UrlsFiles == { UrlA \o NL \o UrlB \o NL }

(***************************************************************************)
(* The functions of src/cli/single-file.                                   *)
(***************************************************************************)
\* VALID_URL_TEST.test(url), the pattern /^(https?|file):\/\//
VALID_URL_TEST(url) ==
    \/ startsWith(url, Str_http)
    \/ startsWith(url, Str_https)
    \/ startsWith(url, Str_file)

\* one iteration of the forEach of rewriteURL
ApplyRewriteRule(url, rewriteRule) ==
    LET parts == splitSpaces(trim(rewriteRule))
    IN  IF Len(parts) = 2
        THEN trim(replaceFirst(url, RegExp(parts[1]), parts[2], FALSE))
        ELSE url

RECURSIVE ApplyRewriteRules(_, _)
ApplyRewriteRules(url, rewriteRules) ==
    IF rewriteRules = <<>> THEN url
    ELSE ApplyRewriteRules(ApplyRewriteRule(url, Head(rewriteRules)), Tail(rewriteRules))

rewriteURL(url, rewriteRules) == ApplyRewriteRules(trim(url), rewriteRules)

\* String.prototype.toLowerCase
toLowerCase(s) == [i \in 1..Len(s) |-> Lower(s[i])]

\* the part of s before the first c (all of s when there is none), and the
\* part after it (empty when there is none)
Before(s, c) == IF IndexOf(s, c) = 0 THEN s ELSE SubSeq(s, 1, IndexOf(s, c) - 1)
After(s, c) == IF IndexOf(s, c) = 0 THEN <<>> ELSE SubSeq(s, IndexOf(s, c) + 1, Len(s))

\* new URL(url) for a url of the form scheme://[user[:password]@]host[:port][/...]:
\* what follows "scheme://", where the authority ends in it, the authority,
\* and its two parts around the last "@"
AfterScheme(url) == SubSeq(url, IndexOf(url, ":") + 3, Len(url))

EndOfAuthority(rest) ==
    IF \E i \in 1..Len(rest) : rest[i] \in {"/", "?", "#"}
    THEN CHOOSE i \in 1..Len(rest) :
            /\ rest[i] \in {"/", "?", "#"}
            /\ \A j \in 1..(i - 1) : rest[j] \notin {"/", "?", "#"}
    ELSE Len(rest) + 1

Authority(url) == SubSeq(AfterScheme(url), 1, EndOfAuthority(AfterScheme(url)) - 1)

UserInfo(authority) == SubSeq(authority, 1, LastIndexOf(authority, "@") - 1)

HostPort(authority) == SubSeq(authority, LastIndexOf(authority, "@") + 1, Len(authority))

ParseURL(url) ==
    [ protocol |-> toLowerCase(SubSeq(url, 1, IndexOf(url, ":"))),
      username |-> Before(UserInfo(Authority(url)), ":"),
      password |-> After(UserInfo(Authority(url)), ":"),
      hostname |-> toLowerCase(Before(HostPort(Authority(url)), ":")) ]

\* new URL(url) does not throw
URLParses(url) ==
    /\ VALID_URL_TEST(url)
    /\ startsWith(url, Str_file) \/ ParseURL(url).hostname # <<>>

getHostURL(url) ==
    LET u == ParseURL(url)
    IN  u.protocol \o <<"/", "/">>
        \o (IF u.username # <<>> THEN u.username \o u.password \o <<"@">> ELSE <<>>)
        \o u.hostname

\* a getFilename that does not probe the disk
getFilenameWithoutProbe(filename, index, files) == filename

\* getFilename(filename, index) where files is the set of the paths on disk
RECURSIVE getFilename(_, _, _)
getFilename(filename, index, files) ==
    LET dot == LastIndexOf(filename, ".")
        hasExtension == dot > 0 /\ dot < Len(filename)
        base == SubSeq(filename, 1, dot - 1)
        extension == SubSeq(filename, dot, Len(filename))
        suffix == <<" ", "-", " ">> \o IntToStr(index)
        newFilename ==
            IF index > 1
            THEN IF hasExtension
                 THEN base \o Expand(suffix \o extension, base, extension, <<>>)
                 ELSE filename \o suffix
            ELSE filename
    IN  IF newFilename \in files
        THEN getFilename(filename, index + 1, files)
        ELSE newFilename

\* escapeRegExp(string): a backslash before each of . * + ? ^ $ { } ( ) | [ ] \
RECURSIVE escapeRegExp(_)
escapeRegExp(string) ==
    IF string = <<>> THEN <<>>
    ELSE (IF Head(string) \in {".", "*", "+", "?", "^", "$", "{", "}", "(", ")",
                                "|", "[", "]", "\\"}
          THEN <<"\\", Head(string)>>
          ELSE <<Head(string)>>)
         \o escapeRegExp(Tail(string))

(***************************************************************************)
(* State.                                                                  *)
(*   options  the options object of the run (never assigned after start),  *)
(*            but for crawlReplaceURLs                                     *)
(*   disk     the file system: path -> content, for the paths that exist   *)
(*   tasks    the tasks array of run(): the frontier                       *)
(*   calls    for each task, the runNextTask call that claimed it: the      *)
(*            await it stands at, what capturePage returned to it, the     *)
(*            call whose runTasks started it, and history                  *)
(*   pc       where run() stands                                           *)
(*   resolver what the reference resolver pass of run() did (history)      *)
(***************************************************************************)
VARIABLES options, disk, tasks, calls, pc, resolver

\* The state of the other parts: a call of the Filename Allocator on its own
\* (alloc), a run of the resolver loop on one page (rewrite), the filter of
\* the links of one page (filter), and the content script of the extension
\* (script).  Each has its own specification below;
\* a part that does not run stays Idle.
VARIABLES alloc, rewrite, filter, script

Idle == [pc |-> "idle"]

cliVars == <<options, disk, tasks, calls, pc, resolver>>

vars == <<options, disk, tasks, calls, pc, resolver, alloc, rewrite, filter, script>>

\* the option sets; options that cannot act are held at one value
OptionSets ==
    { o \in [ maxParallelWorkers : 1..MaxWorkers,
              crawlLinks : BOOLEAN,
              crawlMaxDepth : 0..MaxDepth,
              crawlInnerLinksOnly : BOOLEAN,
              urlRewriteRules : RuleSets,
              urlsFile : {Undefined} \cup UrlsFiles,
              url : {UrlA},
              output : {Undefined, NameOut},
              filenameTemplate : BOOLEAN ] :
        /\ ~o.crawlLinks => (o.crawlMaxDepth = 0 /\ ~o.crawlInnerLinksOnly)
        /\ o.output # Undefined => o.filenameTemplate }

\* { url: ..., originalUrl: ..., depth: ... }: status and filename are not set
NewTask(url, originalUrl, depth) ==
    [ url |-> url, originalUrl |-> originalUrl, depth |-> depth,
      status |-> "pending", filename |-> Undefined ]

\* the history of a task nobody claimed yet; foundBy is the task whose links
\* held it (0 for a seed)
NewCall(foundBy) ==
    [ pos |-> "none", pageData |-> [ok |-> FALSE, filename |-> Undefined],
      by |-> 0, foundBy |-> foundBy, invoked |-> 0, written |-> Undefined ]

\* the tasks run() builds
SeedTasks(o) ==
    IF o.urlsFile # Undefined
    THEN LET lines == split(o.urlsFile, "\n")
             seed(url) == NewTask(rewriteURL(url, o.urlRewriteRules), url, 0)
             kept(task) == task.url # <<>>
         IN  SelectSeq([i \in 1..Len(lines) |-> seed(lines[i])], kept)
    ELSE <<NewTask(rewriteURL(o.url, o.urlRewriteRules), o.url, 0)>>

(***************************************************************************)
(* runTasks and runNextTask up to its first await.  st is the pair of the  *)
(* tasks array and the calls; by is the call that runs runTasks (0: run).  *)
(***************************************************************************)
Count(seq, status) == Cardinality({i \in 1..Len(seq) : seq[i].status = status})

\* a find that tests task.status != "processed"
FindUnprocessedTask(ts) ==
    IF \E i \in 1..Len(ts) : ts[i].status # "processed"
    THEN CHOOSE i \in 1..Len(ts) :
            /\ ts[i].status # "processed"
            /\ \A j \in 1..(i - 1) : ts[j].status = "processed"
    ELSE 0

\* a find that starts from the end of the array
FindLastPendingTask(ts) ==
    IF \E i \in 1..Len(ts) : ts[i].status = "pending"
    THEN CHOOSE i \in 1..Len(ts) :
            /\ ts[i].status = "pending"
            /\ \A j \in (i + 1)..Len(ts) : ts[j].status # "pending"
    ELSE 0

\* tasks.find(task => !task.status) as an index, 0 when there is none
FindPendingTask(ts) ==
    IF \E i \in 1..Len(ts) : ts[i].status = "pending"
    THEN CHOOSE i \in 1..Len(ts) :
            /\ ts[i].status = "pending"
            /\ \A j \in 1..(i - 1) : ts[j].status # "pending"
    ELSE 0

\* a loop bound that forgets the tasks in flight
WorkersToStartIgnoringProcessing(ts, o) ==
    Min(Count(ts, "pending"), o.maxParallelWorkers)

\* a loop bound that keeps one worker back
WorkersToStartLessOne(ts, o) ==
    Min(Count(ts, "pending"), o.maxParallelWorkers - Count(ts, "processing") - 1)

\* a loop bound that starts workers at batch boundaries only
WorkersToStartAtBatchEnd(ts, o) ==
    IF Count(ts, "processing") = 0
    THEN Min(Count(ts, "pending"), o.maxParallelWorkers)
    ELSE 0

\* the bound of the for loop of runTasks
WorkersToStart(ts, o) ==
    Min(Count(ts, "pending"), o.maxParallelWorkers - Count(ts, "processing"))

\* runNextTask up to "await capturePage(options)": the task is claimed and
\* the backend is called on it
StartNextTask(st, by) ==
    LET i == FindPendingTask(st.tasks)
    IN  IF i = 0 THEN st
        ELSE [ tasks |-> [st.tasks EXCEPT ![i].status = "processing"],
               calls |-> [st.calls EXCEPT ![i].pos = "getPageData",
                                          ![i].by = by,
                                          ![i].invoked = @ + 1] ]

RECURSIVE StartWorkers(_, _, _)
StartWorkers(st, by, n) ==
    IF n <= 0 THEN st ELSE StartWorkers(StartNextTask(st, by), by, n - 1)

runTasks(st, by, o) == StartWorkers(st, by, WorkersToStart(st.tasks, o))

\* a runNextTask that does not await the runTasks call it makes
ReturnedWithoutAwait(cs, i) == cs[i].pos = "runTasks"

\* the runNextTask call of task i has returned: it went through its
\* "await runTasks(tasks, options)", that is, every runNextTask call which that
\* runTasks started (Promise.all) has returned.  A call claims a task behind
\* every task claimed before, so the calls started by call i have indices > i.
RECURSIVE Returned(_, _)
Returned(cs, i) ==
    /\ cs[i].pos = "runTasks"
    /\ \A j \in (i + 1)..Len(cs) :
        (cs[j].pos # "none" /\ cs[j].by = i) => Returned(cs, j)

\* Promise.all(promisesTasks) of the runTasks call made by run() is resolved
PromisesSettled(cs) ==
    \A j \in 1..Len(cs) : (cs[j].pos # "none" /\ cs[j].by = 0) => Returned(cs, j)

Init ==
    /\ options \in OptionSets
    /\ disk = [p \in {} |-> <<>>]
    /\ tasks = <<>>
    /\ calls = <<>>
    /\ pc = "start"
    /\ resolver = [ran |-> FALSE, written |-> {}, sources |-> {}]
    /\ alloc = Idle
    /\ rewrite = Idle
    /\ filter = Idle
    /\ script = Idle

\* the tasks run() builds, for the option sets of the model, computed once
InitialTasks == [o \in OptionSets |-> SeedTasks(o)]

\* run() up to "await runTasks(tasks, options)"
RunStart ==
    /\ pc = "start"
    /\ LET seeds == InitialTasks[options]
           st == runTasks([tasks |-> seeds, calls |-> [i \in 1..Len(seeds) |-> NewCall(0)]],
                          0, options)
       IN  /\ tasks' = st.tasks
           /\ calls' = st.calls
    /\ pc' = "running"
    /\ UNCHANGED <<options, disk, resolver, alloc, rewrite, filter, script>>

(***************************************************************************)
(* capturePage after "await backend.getPageData(options)", and runNextTask *)
(* after "await capturePage(options)".  The two continuations of a capture *)
(* are one step: continuations run first in first out, so the second ones  *)
(* of two captures run in the order of the first ones, and the first one   *)
(* of a capture (it writes a file) commutes with the second one of another *)
(* capture (it updates the tasks).                                         *)
(***************************************************************************)
\* fs.writeFileSync(path, content)
writeFileSync(d, path, content) ==
    [p \in (DOMAIN d) \cup {path} |-> IF p = path THEN content ELSE d[p]]

\* the path capturePage writes the content to; Undefined: it goes to stdout
OutputPath(o, filename, files) ==
    IF o.output # Undefined
    THEN getFilename(o.output, 1, files)
    ELSE IF o.filenameTemplate /\ filename # Undefined
         THEN getFilename(filename, 1, files)
         ELSE Undefined

\* the link lists a backend may return
LinkLists == UNION {[1..n -> LinkUrls] : n \in 0..MaxLinks}

\* a depth test written with <=
CrawlsLinksInclusive(task, o) == o.crawlLinks /\ task.depth <= o.crawlMaxDepth

\* options.crawlLinks && task.depth < options.crawlMaxDepth
CrawlsLinks(task, o) == o.crawlLinks /\ task.depth < o.crawlMaxDepth

\* the filter of line 109 on a mapped link, against the tasks array ts
Admits(t, ts) ==
    /\ t.url # <<>>
    /\ VALID_URL_TEST(t.url)
    /\ ~\E j \in 1..Len(ts) : ts[j].url = t.url

\* rewriteURL(urlLink, rewriteRules) for the links and the rule lists of the
\* model, computed once
RewrittenLinks ==
    [rewriteRules \in RuleSets |->
        [urlLink \in LinkUrls \cup HostLinkUrls |-> rewriteURL(urlLink, rewriteRules)]]

\* newTasks of runNextTask, for the links of the page of task
NewTasks(task, links, ts, o) ==
    LET child(urlLink) ==
            NewTask(RewrittenLinks[o.urlRewriteRules][urlLink], urlLink, task.depth + 1)
        admitted(t) == Admits(t, ts)
        urlHost == getHostURL(task.url)
        inner(t) == startsWith(t.url, urlHost)
        newTasks == SelectSeq([k \in 1..Len(links) |-> child(links[k])], admitted)
    IN  IF o.crawlInnerLinksOnly THEN SelectSeq(newTasks, inner) ELSE newTasks

\* the value task.filename has after lines 104 and 105, for the pageData
\* capturePage returned and the path it wrote the content to
RecordedFilename(task, pageData, path) ==
    IF pageData.ok THEN pageData.filename ELSE task.filename

\* the tasks appended after a capture: none unless there is pageData
AppendedTasks(task, pageData, ts, o) ==
    IF pageData.ok /\ CrawlsLinks(task, o)
    THEN NewTasks(task, pageData.links, ts, o)
    ELSE <<>>

\* a runNextTask whose "await runTasks(tasks, options)" stands inside
\* "if (pageData) { ... }"
ResumeNextTaskInsideIf(st, i, pageData, path, o) ==
    LET processed == [st.tasks EXCEPT
                        ![i].status = "processed",
                        ![i].filename = RecordedFilename(st.tasks[i], pageData, path)]
        newTasks == AppendedTasks(processed[i], pageData, processed, o)
        grown == [ tasks |-> processed \o newTasks,
                   calls |-> [st.calls EXCEPT
                                ![i].pos = "runTasks",
                                ![i].pageData = [ok |-> pageData.ok,
                                                 filename |-> pageData.filename],
                                ![i].written = path]
                             \o [k \in 1..Len(newTasks) |-> NewCall(i)] ]
    IN  IF pageData.ok THEN runTasks(grown, i, o) ELSE grown

\* a runNextTask that inserts the new tasks at the start of the array
ResumeNextTaskPrepending(st, i, pageData, path, o) ==
    LET processed == [st.tasks EXCEPT
                        ![i].status = "processed",
                        ![i].filename = RecordedFilename(st.tasks[i], pageData, path)]
        newTasks == AppendedTasks(processed[i], pageData, processed, o)
        grown == [ tasks |-> newTasks \o processed,
                   calls |-> [k \in 1..Len(newTasks) |-> NewCall(i)]
                             \o [st.calls EXCEPT
                                    ![i].pos = "runTasks",
                                    ![i].pageData = [ok |-> pageData.ok,
                                                     filename |-> pageData.filename],
                                    ![i].written = path] ]
    IN  runTasks(grown, i, o)

\* lines 103 to 117 on the task at index i, capturePage having returned
\* pageData (ok is FALSE for undefined) after writing to path
ResumeNextTask(st, i, pageData, path, o) ==
    LET processed == [st.tasks EXCEPT
                        ![i].status = "processed",
                        ![i].filename = RecordedFilename(st.tasks[i], pageData, path)]
        newTasks == AppendedTasks(processed[i], pageData, processed, o)
        grown == [ tasks |-> processed \o newTasks,
                   calls |-> [st.calls EXCEPT
                                ![i].pos = "runTasks",
                                ![i].pageData = [ok |-> pageData.ok,
                                                 filename |-> pageData.filename],
                                ![i].written = path]
                             \o [k \in 1..Len(newTasks) |-> NewCall(i)] ]
    IN  runTasks(grown, i, o)

\* the backend resolved with { content, filename, links }: capturePage writes
\* the content and returns pageData, and runNextTask goes on with it.  The
\* backend captures only a url it can parse.
GetPageDataResolves(i) ==
    /\ pc = "running"
    /\ calls[i].pos = "getPageData"
    /\ URLParses(tasks[i].url)
    /\ LET content == PageContent(tasks[i].url)
           filename == PageFilename(tasks[i].url)
           path == OutputPath(options, filename, DOMAIN disk)
       IN  /\ disk' = IF path = Undefined THEN disk
                      ELSE writeFileSync(disk, path, content)
           /\ \E links \in (IF CrawlsLinks(tasks[i], options) THEN LinkLists ELSE {<<>>}) :
                LET pageData == [ ok |-> TRUE, content |-> content,
                                  filename |-> filename, links |-> links ]
                    st == ResumeNextTask([tasks |-> tasks, calls |-> calls], i,
                                         pageData, path, options)
                IN  /\ Len(st.tasks) <= MaxTasks
                    /\ tasks' = st.tasks
                    /\ calls' = st.calls
    /\ UNCHANGED <<options, pc, resolver, alloc, rewrite, filter, script>>

\* the backend rejected or threw: the catch block of capturePage reports the
\* error, capturePage returns undefined, and runNextTask goes on without
\* pageData
GetPageDataRejects(i) ==
    /\ pc = "running"
    /\ calls[i].pos = "getPageData"
    /\ LET pageData == [ ok |-> FALSE, content |-> <<>>, filename |-> Undefined,
                         links |-> <<>> ]
           st == ResumeNextTask([tasks |-> tasks, calls |-> calls], i, pageData,
                                Undefined, options)
       IN  /\ tasks' = st.tasks
           /\ calls' = st.calls
    /\ UNCHANGED <<options, disk, pc, resolver, alloc, rewrite, filter, script>>

(***************************************************************************)
(* run() after "await runTasks(tasks, options)": the reference resolver.   *)
(***************************************************************************)
\* "" + value
ToStr(value) ==
    IF value = Undefined THEN <<"u", "n", "d", "e", "f", "i", "n", "e", "d">> ELSE value

\* the body of the inner forEach (lines 69 to 73); line 71 throws a TypeError
\* when otherTask.filename is undefined, and ok is then FALSE
RewriteReferences(pageContent, otherTask) ==
    LET quoted(q, text) == <<q>> \o text \o <<q>>
        double == replaceAll(pageContent,
                             RegExp(escapeRegExp(quoted("\"", otherTask.originalUrl))),
                             quoted("\"", ToStr(otherTask.filename)), TRUE)
        single == replaceAll(double,
                             RegExp(escapeRegExp(quoted("'", otherTask.originalUrl))),
                             quoted("'", ToStr(otherTask.filename)), TRUE)
    IN  IF otherTask.filename = Undefined
        THEN [ok |-> FALSE, content |-> single]
        ELSE LET filename == replaceAll(otherTask.filename, RegExp(<<" ">>),
                                        <<"%", "2", "0">>, FALSE)
                 space == replaceAll(single,
                                     RegExp(escapeRegExp(<<"=">> \o otherTask.originalUrl \o <<" ">>)),
                                     <<"=">> \o filename \o <<" ">>, TRUE)
                 angle == replaceAll(space,
                                     RegExp(escapeRegExp(<<"=">> \o otherTask.originalUrl \o <<">">>)),
                                     <<"=">> \o filename \o <<">">>, TRUE)
             IN  [ok |-> TRUE, content |-> angle]

\* the inner forEach from index k on; last is the last otherTask it read
RECURSIVE ForEachOtherTask(_, _, _)
ForEachOtherTask(pageContent, ts, k) ==
    IF k > Len(ts) THEN [ok |-> TRUE, content |-> pageContent, last |-> Len(ts)]
    ELSE LET r == RewriteReferences(pageContent, ts[k])
         IN  IF r.ok THEN ForEachOtherTask(r.content, ts, k + 1)
             ELSE [ok |-> FALSE, content |-> r.content, last |-> k]

\* one iteration of the outer forEach: rs is the disk and the history so far.
\* readFileSync throws for an undefined or missing path, and whatever the
\* try block throws is ignored
ResolveTask(rs, ts, t) ==
    IF ts[t].filename = Undefined \/ ts[t].filename \notin DOMAIN rs.disk
    THEN rs
    ELSE LET r == ForEachOtherTask(rs.disk[ts[t].filename], ts, 1)
         IN  [ disk |-> IF r.ok THEN writeFileSync(rs.disk, ts[t].filename, r.content)
                        ELSE rs.disk,
               written |-> IF r.ok THEN rs.written \cup {t} ELSE rs.written,
               sources |-> rs.sources \cup (1..r.last) ]

RECURSIVE ForEachTask(_, _, _)
ForEachTask(rs, ts, t) ==
    IF t > Len(ts) THEN rs ELSE ForEachTask(ResolveTask(rs, ts, t), ts, t + 1)

\* the top-level runTasks call returned: run() resolves the references when
\* asked to, and ends.  options.crawlReplaceURLs is read here and nowhere
\* else, so its value is drawn here.
RunResumes ==
    /\ pc = "running"
    /\ PromisesSettled(calls)
    /\ \E crawlReplaceURLs \in BOOLEAN :
        LET rs == IF crawlReplaceURLs
                  THEN ForEachTask([disk |-> disk, written |-> {}, sources |-> {}], tasks, 1)
                  ELSE [disk |-> disk, written |-> {}, sources |-> {}]
        IN  /\ disk' = rs.disk
            /\ resolver' = [ran |-> crawlReplaceURLs,
                            written |-> rs.written, sources |-> rs.sources]
    /\ pc' = "done"
    /\ UNCHANGED <<options, tasks, calls, alloc, rewrite, filter, script>>

Next ==
    \/ RunStart
    \/ \E i \in 1..Len(tasks) : GetPageDataRejects(i)
    \/ \E i \in 1..Len(tasks) : GetPageDataResolves(i)
    \/ RunResumes

Spec == Init /\ [][Next]_vars

\* a call to the backend settles: it rejects or it resolves
Settles == \E i \in 1..Len(tasks) : GetPageDataRejects(i) \/ GetPageDataResolves(i)

\* as long as a capture is in flight, a capture settles
FairSpec == Spec /\ WF_vars(Settles)

(***************************************************************************)
(* The Filename Allocator on its own: getFilename is called on a desired   *)
(* name and the caller writes the file it returns (capturePage, lines 141  *)
(* and 144).  alloc.files is the set of the paths on disk, alloc.probed    *)
(* the paths that were on disk when the last call was made.                *)
(***************************************************************************)
DesiredNames == {NameHtml, NameOut, NameAmp}

CliIdle ==
    /\ options = Idle
    /\ disk = Idle
    /\ tasks = <<>>
    /\ calls = <<>>
    /\ pc = "idle"
    /\ resolver = Idle

AllocInit ==
    /\ \E files \in SUBSET {NameHtml, NameHtml3, NameAmp} :
         alloc = [pc |-> "ready", files |-> files, probed |-> {}, written |-> 0,
                  name |-> <<>>, result |-> <<>>]
    /\ CliIdle
    /\ rewrite = Idle
    /\ filter = Idle
    /\ script = Idle

\* fs.writeFileSync(getFilename(name), content)
Allocate(name) ==
    /\ alloc.pc \in {"ready", "allocated"}
    /\ alloc.written < MaxFiles
    /\ alloc' = [pc |-> "allocated",
                 files |-> alloc.files \cup {getFilename(name, 1, alloc.files)},
                 probed |-> alloc.files,
                 written |-> alloc.written + 1,
                 name |-> name,
                 result |-> getFilename(name, 1, alloc.files)]
    /\ UNCHANGED <<cliVars, rewrite, filter, script>>

AllocNext == \E name \in DesiredNames : Allocate(name)

AllocSpec == AllocInit /\ [][AllocNext]_vars

(***************************************************************************)
(* The inner loop of the reference resolver on its own (lines 68 to 74):   *)
(* the content of the file of a task is rewritten with respect to the      *)
(* tasks of the frontier, which all have a filename here.                  *)
(***************************************************************************)
UrlPage2 == Str_http \o <<"x", "/", "p", "a", "g", "e", "2">>          \* http://x/page2
UrlDot == Str_http \o <<"x", "/", "p", ".", "g", "e", "2">>            \* http://x/p.ge2
UrlPage2Upper == <<"H", "T", "T", "P", ":", "/", "/", "X", "/", "P", "A", "G", "E", "2">>

NamePage2 == <<"p", "a", "g", "e", "2", " ", "(", "1", ")", ".", "h", "t", "m", "l">>   \* page2 (1).html
NameDollars == <<"$", "$", " ", "5", ".", "h">>                                        \* $$ 5.h

Anchor == <<"<", "a", " ", "h", "r", "e", "f", "=">>                   \* <a href=

\* pieces of a page that refer to http://x/page2, or do not
Fragments ==
    { Anchor \o <<"\"">> \o UrlPage2 \o <<"\"", ">">>,        \* <a href="http://x/page2">
      Anchor \o <<"'">> \o UrlPage2 \o <<"'", ">">>,            \* <a href='http://x/page2'>
      Anchor \o UrlPage2 \o <<">">>,                            \* <a href=http://x/page2>
      Anchor \o UrlPage2 \o <<" ", "x", ">">>,                  \* <a href=http://x/page2 x>
      Anchor \o <<"\"">> \o UrlPage2Upper \o <<"\"", ">">>,   \* <a href="HTTP://X/PAGE2">
      <<"(">> \o UrlPage2 \o <<")">> }                          \* (http://x/page2)

RECURSIVE Concatenations(_)
Concatenations(n) ==
    IF n = 0 THEN {<<>>}
    ELSE {c \o f : c \in Concatenations(n - 1), f \in Fragments}

PageContents == UNION {Concatenations(n) : n \in 1..MaxFragments}

\* a processed task with a filename
CapturedTask(originalUrl, filename) ==
    [ url |-> originalUrl, originalUrl |-> originalUrl, depth |-> 0,
      status |-> "processed", filename |-> filename ]

\* the frontiers: task A, whose file is rewritten, and a task B
Frontiers ==
    { <<CapturedTask(UrlA, NameA), CapturedTask(UrlPage2, NamePage2)>>,
      <<CapturedTask(UrlA, NameA), CapturedTask(UrlPage2, NameDollars)>>,
      <<CapturedTask(UrlA, NameA), CapturedTask(UrlDot, NamePage2)>> }

RewriteInit ==
    /\ \E pageContent \in PageContents : \E ts \in Frontiers :
         rewrite = [pc |-> "read", pageContent |-> pageContent, tasks |-> ts,
                    result |-> <<>>]
    /\ CliIdle
    /\ alloc = Idle
    /\ filter = Idle
    /\ script = Idle

\* tasks.forEach(otherTask => { ... }) on the content read from the file
RewriteContent ==
    /\ rewrite.pc = "read"
    /\ rewrite' = [rewrite EXCEPT
                     !.pc = "rewritten",
                     !.result = ForEachOtherTask(rewrite.pageContent, rewrite.tasks, 1).content]
    /\ UNCHANGED <<cliVars, alloc, filter, script>>

RewriteNext == RewriteContent

RewriteSpec == RewriteInit /\ [][RewriteNext]_vars

(***************************************************************************)
(* The filter of the links of one page on its own (lines 107 to 113): the  *)
(* page of a task was captured and its links become the new tasks.         *)
(***************************************************************************)
HostLinkLists == UNION {[1..n -> HostLinkUrls] : n \in 0..MaxLinks}

FilterInit ==
    /\ \E url \in ParentUrls : \E links \in HostLinkLists : \E inner \in BOOLEAN :
         filter = [pc |-> "captured",
                   task |-> CapturedTask(url, NameA),
                   links |-> links,
                   options |-> [urlRewriteRules |-> <<>>, crawlInnerLinksOnly |-> inner],
                   newTasks |-> <<>>]
    /\ CliIdle
    /\ alloc = Idle
    /\ rewrite = Idle
    /\ script = Idle

\* newTasks of runNextTask for the links of the page
FilterLinks ==
    /\ filter.pc = "captured"
    /\ filter' = [filter EXCEPT
                    !.pc = "filtered",
                    !.newTasks = NewTasks(filter.task, filter.links, <<filter.task>>,
                                          filter.options)]
    /\ UNCHANGED <<cliVars, alloc, rewrite, script>>

FilterNext == FilterLinks

FilterSpec == FilterInit /\ [][FilterNext]_vars

(***************************************************************************)
(* The content script of the extension (content.js): the processing flag   *)
(* and the savePage runs.  A message is handled to completion or to the    *)
(* first await of the run it starts before the next one is delivered.      *)
(***************************************************************************)
\* frameId 0 is the top frame
FrameIds == {0, 1}

\* message.options: an object with a frameId, or no object at all
MessageOptions ==
    {[defined |-> FALSE, frameId |-> 0]} \cup [defined : {TRUE}, frameId : FrameIds]

Messages == [processStart : BOOLEAN, options : MessageOptions]

\* the awaits of processMessage, in order
Awaits == <<"getOptions", "initialize", "preparePageData">>

AwaitIndex(at) == CHOOSE k \in 1..Len(Awaits) : Awaits[k] = at

InFlight(run) == run.at \in {Awaits[k] : k \in 1..Len(Awaits)}

\* a savePage that does not test the flag
AcceptsWhileProcessing(st, message) ==
    IF message.processStart
    THEN IF message.options.defined
         THEN IF message.options.frameId = 0 THEN "started" ELSE "dropped"
         ELSE "threw"
    ELSE "dropped"

\* the condition of the if of savePage, which throws a TypeError when it
\* reads frameId of no options
Accepts(st, message) ==
    IF message.processStart /\ ~st.processing
    THEN IF message.options.defined
         THEN IF message.options.frameId = 0 THEN "started" ELSE "dropped"
         ELSE "threw"
    ELSE "dropped"

\* savePage(message) up to "await processMessage(message)"
savePage(st, message, via) ==
    IF Accepts(st, message) = "started"
    THEN [st EXCEPT !.processing = TRUE,
                    !.runs = Append(@, [via |-> via, at |-> Awaits[1]]),
                    !.received = @ + 1,
                    !.last = [via |-> via, message |-> message, outcome |-> "started"]]
    ELSE [st EXCEPT !.received = @ + 1,
                    !.last = [via |-> via, message |-> message,
                              outcome |-> Accepts(st, message)]]

\* downloadPage and revokeDownloadURL returned: the try block is left
\* normally and the flag is cleared
Succeeded(st, r) == [st EXCEPT !.runs[r].at = "done", !.processing = FALSE]

\* a catch block that returns without clearing the flag
FailedKeepingFlag(st, r) == [st EXCEPT !.runs[r].at = "failed"]

\* the catch block: the error is logged and reported, the flag is cleared
Failed(st, r) == [st EXCEPT !.runs[r].at = "failed", !.processing = FALSE]

ScriptInit ==
    /\ script = [pc |-> "loaded", processing |-> FALSE, runs |-> <<>>, received |-> 0,
                 last |-> [via |-> "none", message |-> [processStart |-> FALSE,
                           options |-> [defined |-> FALSE, frameId |-> 0]],
                           outcome |-> "none"]]
    /\ CliIdle
    /\ alloc = Idle
    /\ rewrite = Idle
    /\ filter = Idle

\* the listener of browser.runtime.onMessage
RuntimeMessage(message) ==
    /\ script.pc = "loaded"
    /\ script.received < MaxMessages
    /\ script' = savePage(script, message, "runtime")
    /\ UNCHANGED <<cliVars, alloc, rewrite, filter>>

\* the listener of the message events of the window: only a string that
\* starts with "__SingleFile__::" is parsed and passed to savePage
WindowMessage(tagged, message) ==
    /\ script.pc = "loaded"
    /\ script.received < MaxMessages
    /\ script' = IF tagged THEN savePage(script, message, "window")
                 ELSE [script EXCEPT !.received = @ + 1,
                                     !.last = [via |-> "window", message |-> message,
                                               outcome |-> "ignored"]]
    /\ UNCHANGED <<cliVars, alloc, rewrite, filter>>

\* an await of processMessage resolves and processMessage goes on to the next
AwaitResolves(r) ==
    /\ script.pc = "loaded"
    /\ InFlight(script.runs[r])
    /\ AwaitIndex(script.runs[r].at) < Len(Awaits)
    /\ script' = [script EXCEPT !.runs[r].at = Awaits[AwaitIndex(script.runs[r].at) + 1]]
    /\ UNCHANGED <<cliVars, alloc, rewrite, filter>>

\* the last await resolves and processMessage returns the page: savePage
\* calls downloadPage and revokeDownloadURL, which return or throw
ProcessMessageReturns(r) ==
    /\ script.pc = "loaded"
    /\ InFlight(script.runs[r])
    /\ AwaitIndex(script.runs[r].at) = Len(Awaits)
    /\ \E thrown \in BOOLEAN :
         script' = IF thrown THEN Failed(script, r) ELSE Succeeded(script, r)
    /\ UNCHANGED <<cliVars, alloc, rewrite, filter>>

\* processMessage throws, at its start or after one of its awaits
ProcessMessageThrows(r) ==
    /\ script.pc = "loaded"
    /\ InFlight(script.runs[r])
    /\ script' = Failed(script, r)
    /\ UNCHANGED <<cliVars, alloc, rewrite, filter>>

ScriptNext ==
    \/ \E message \in Messages : RuntimeMessage(message)
    \/ \E tagged \in BOOLEAN : \E message \in Messages : WindowMessage(tagged, message)
    \/ \E r \in 1..Len(script.runs) : AwaitResolves(r)
    \/ \E r \in 1..Len(script.runs) : ProcessMessageReturns(r)
    \/ \E r \in 1..Len(script.runs) : ProcessMessageThrows(r)

ScriptSpec == ScriptInit /\ [][ScriptNext]_vars

(***************************************************************************)
(* Properties.                                                             *)
(***************************************************************************)
Indices == 1..Len(tasks)

AllProcessed == \A i \in Indices : tasks[i].status = "processed"

\* C1: the number of tasks whose status is "processing" never exceeds
\* maxParallelWorkers, whatever the order of the completions and the links
\* the captures return.
C1_ProcessingBound == Count(tasks, "processing") <= options.maxParallelWorkers

\* the bound is reached while a task waits, after a capture completed
C1_Witness ==
    /\ Count(tasks, "processing") = options.maxParallelWorkers
    /\ Count(tasks, "pending") >= 1
    /\ \E i \in Indices : tasks[i].status = "processed" /\ calls[i].pageData.ok

\* C2: when the top-level runTasks call of run() has returned (Promise.all
\* settled), and so when the resolver runs and after it, every task of the
\* frontier is processed: none is pending, none is processing.
C2_QuiescenceBarrier ==
    ((pc = "running" /\ PromisesSettled(calls)) \/ pc = "done") => AllProcessed

\* run() went on after a crawl in which a discovered task was claimed by the
\* runTasks call of another runNextTask
C2_Witness ==
    /\ pc = "done"
    /\ \E i \in Indices :
        /\ calls[i].foundBy # 0
        /\ calls[i].by # 0
        /\ tasks[i].status = "processed"

\* C3: when every capture settles, the scheduler drains: once run() has
\* called runTasks, eventually that top-level call has returned (Promise.all
\* settled) and every task is processed, whether or not captures failed.
C3_Drains == (pc = "running") ~> (PromisesSettled(calls) /\ AllProcessed)

\* a drained crawl of three tasks or more with a failed and a successful capture
C3_Witness ==
    /\ pc = "done"
    /\ Len(tasks) >= 3
    /\ \E i \in Indices : ~calls[i].pageData.ok
    /\ \E i \in Indices : calls[i].pageData.ok

C5_Depths ==
    \A i \in Indices :
        /\ calls[i].foundBy = 0 => tasks[i].depth = 0
        /\ calls[i].foundBy # 0 => tasks[i].depth = tasks[calls[i].foundBy].depth + 1
        /\ tasks[i].depth <= options.crawlMaxDepth

\* with crawlMaxDepth = 1, a link of a seed became a task of depth 1, its
\* page was captured and gave no task
C5_Witness ==
    /\ options.crawlLinks
    /\ options.crawlMaxDepth = 1
    /\ \E i \in Indices :
        /\ calls[i].foundBy # 0
        /\ tasks[i].depth = 1
        /\ tasks[i].status = "processed"
        /\ calls[i].pageData.ok
        /\ \A j \in Indices : calls[j].foundBy # i

\* C6: the status of a task only moves pending -> processing -> processed
\* (a task appended by a step starts pending, and may be claimed by the same
\* step), and the backend is called at most once for a task.
C6_StatusOrder ==
    [][ /\ Len(tasks') >= Len(tasks)
        /\ \A i \in 1..Len(tasks') :
            LET before == IF i <= Len(tasks) THEN tasks[i].status ELSE "pending"
                after == tasks'[i].status
            IN  /\ \/ after = before
                   \/ before = "pending" /\ after = "processing"
                   \/ before = "processing" /\ after = "processed"
                /\ calls'[i].invoked = IF after = "pending" THEN 0 ELSE 1 ]_vars

\* a capture completed while a task claimed before it is still in flight
C6_Witness ==
    \E i \in Indices : \E j \in Indices :
        /\ i < j
        /\ tasks[i].status = "processing"
        /\ tasks[j].status = "processed"
        /\ calls[i].invoked = 1

\* C7: when the capture of task i fails, task i becomes processed without a
\* filename, nothing is appended, no other task changes but the pending
\* tasks this call claims next, and it claims the first pending task.
C7_FailureIsLocal ==
    [][ \A i \in Indices :
          (calls[i].pos = "getPageData" /\ calls'[i].pos = "runTasks"
                /\ ~calls'[i].pageData.ok)
          => /\ tasks'[i].status = "processed"
             /\ tasks'[i].filename = Undefined
             /\ Len(tasks') = Len(tasks)
             /\ \A j \in Indices \ {i} :
                    /\ tasks'[j].filename = tasks[j].filename
                    /\ \/ tasks'[j].status = tasks[j].status
                       \/ /\ tasks[j].status = "pending"
                          /\ tasks'[j].status = "processing"
                          /\ calls'[j].by = i
             /\ FindPendingTask(tasks) # 0 =>
                    /\ tasks'[FindPendingTask(tasks)].status = "processing"
                    /\ calls'[FindPendingTask(tasks)].by = i ]_vars

\* a capture failed and its runNextTask call claimed the next pending task
C7_Witness ==
    \E i \in Indices : \E j \in Indices :
        /\ tasks[i].status = "processed"
        /\ ~calls[i].pageData.ok
        /\ tasks[i].filename = Undefined
        /\ calls[j].pos # "none"
        /\ calls[j].by = i

\* C8: the resolver reads no task without a filename as the source of an
\* originalUrl/filename pair, and every task with a filename whose file can
\* be read has its content rewritten and written back, whatever tasks
\* without a filename the frontier holds.
C8_ResolverSkipsFailedTasks ==
    (pc = "done" /\ resolver.ran) =>
        /\ \A k \in resolver.sources : tasks[k].filename # Undefined
        /\ \A t \in Indices :
            (tasks[t].filename # Undefined /\ tasks[t].filename \in DOMAIN disk)
                => t \in resolver.written

\* C9: the filename of a processed task is the path the content of that task
\* was written to, and two tasks never have the same filename.
C9_FilenameIsWrittenPath ==
    \A i \in Indices :
        (tasks[i].status = "processed" /\ tasks[i].filename # Undefined) =>
            /\ tasks[i].filename = calls[i].written
            /\ \A j \in Indices \ {i} : tasks[j].filename # tasks[i].filename

\* C10: no task of the frontier has an empty url, and the url of every
\* discovered task matches VALID_URL_TEST.
C10_NoEmptyOrInvalidUrl ==
    \A i \in Indices :
        /\ tasks[i].url # <<>>
        /\ calls[i].foundBy # 0 => VALID_URL_TEST(tasks[i].url)

\* the name with " - k" before its extension, or behind it when it has none;
\* the extension is the last "." of the name and what follows it, when
\* something follows it
WithSuffix(name, k) ==
    IF LastIndexOf(name, ".") > 0 /\ LastIndexOf(name, ".") < Len(name)
    THEN SubSeq(name, 1, LastIndexOf(name, ".") - 1) \o <<" ", "-", " ">> \o IntToStr(k)
         \o SubSeq(name, LastIndexOf(name, "."), Len(name))
    ELSE name \o <<" ", "-", " ">> \o IntToStr(k)

\* C11: getFilename never returns a name that is on disk when it is called;
\* it returns the desired name when that name is free, and otherwise the name
\* with " - k" before the extension (behind the name when there is none) for
\* the smallest k >= 2 that gives a free name; p.html, when only it is taken,
\* gives p - 2.html.
C11_AllocatesFreeName ==
    alloc.pc = "allocated" =>
        /\ alloc.result \notin alloc.probed
        /\ alloc.name \notin alloc.probed => alloc.result = alloc.name
        /\ alloc.name \in alloc.probed =>
              \E k \in 2..(MaxFiles + 4) :
                  /\ alloc.result = WithSuffix(alloc.name, k)
                  /\ \A j \in 2..(k - 1) : WithSuffix(alloc.name, j) \in alloc.probed
        /\ (alloc.name = NameHtml /\ alloc.probed = {NameHtml}) =>
              alloc.result = <<"p", " ", "-", " ", "2", ".", "h", "t", "m", "l">>

\* C12 as stated: with task B of originalUrl http://x/page2 captured to
\* "page2 (1).html", the content <a href="http://x/page2"> of the file of A
\* becomes <a href="page2%20(1).html">.
C12_QuotedBecomesEncoded ==
    ( /\ rewrite.pc = "rewritten"
      /\ rewrite.tasks[2] = CapturedTask(UrlPage2, NamePage2)
      /\ rewrite.pageContent = Anchor \o <<"\"">> \o UrlPage2 \o <<"\"", ">">> )
    => rewrite.result =
          Anchor \o <<"\"", "p", "a", "g", "e", "2", "%", "2", "0", "(", "1", ")",
                      ".", "h", "t", "m", "l", "\"", ">">>

\* C12 amended: with the same task B, the unquoted content
\* <a href=http://x/page2> becomes <a href=page2%20(1).html>, and the quoted
\* content <a href="http://x/page2"> becomes <a href="page2 (1).html">.
C12_RoundTrip ==
    (rewrite.pc = "rewritten" /\ rewrite.tasks[2] = CapturedTask(UrlPage2, NamePage2)) =>
        /\ rewrite.pageContent = Anchor \o UrlPage2 \o <<">">>
            => rewrite.result =
                  Anchor \o <<"p", "a", "g", "e", "2", "%", "2", "0", "(", "1", ")",
                              ".", "h", "t", "m", "l", ">">>
        /\ rewrite.pageContent = Anchor \o <<"\"">> \o UrlPage2 \o <<"\"", ">">>
            => rewrite.result = Anchor \o <<"\"">> \o NamePage2 \o <<"\"", ">">>

\* the unquoted reference was rewritten
C12_Witness ==
    /\ rewrite.pc = "rewritten"
    /\ rewrite.tasks[2] = CapturedTask(UrlPage2, NamePage2)
    /\ rewrite.pageContent = Anchor \o UrlPage2 \o <<">">>
    /\ rewrite.result # rewrite.pageContent

\* the letters of a and b are the same, whatever their case
EqualsIgnoringCase(a, b) ==
    Len(a) = Len(b) /\ \A k \in 1..Len(a) : Lower(a[k]) = Lower(b[k])

\* text occurs in pageContent at index i, whatever the case of its letters
OccursAt(pageContent, i, text) ==
    /\ i + Len(text) - 1 <= Len(pageContent)
    /\ EqualsIgnoringCase(SubSeq(pageContent, i, i + Len(text) - 1), text)

\* filename with %20 for each of its spaces
RECURSIVE EncodeSpaces(_)
EncodeSpaces(filename) ==
    IF filename = <<>> THEN <<>>
    ELSE (IF Head(filename) = " " THEN <<"%", "2", "0">> ELSE <<Head(filename)>>)
         \o EncodeSpaces(Tail(filename))

\* pageContent from index i on, where every occurrence of o.originalUrl in
\* one of the four forms is replaced and every other character is kept
RECURSIVE RewrittenFrom(_, _, _)
RewrittenFrom(pageContent, o, i) ==
    IF i > Len(pageContent) THEN <<>>
    ELSE IF OccursAt(pageContent, i, <<"\"">> \o o.originalUrl \o <<"\"">>)
         THEN <<"\"">> \o o.filename \o <<"\"">>
              \o RewrittenFrom(pageContent, o, i + Len(o.originalUrl) + 2)
    ELSE IF OccursAt(pageContent, i, <<"'">> \o o.originalUrl \o <<"'">>)
         THEN <<"'">> \o o.filename \o <<"'">>
              \o RewrittenFrom(pageContent, o, i + Len(o.originalUrl) + 2)
    ELSE IF OccursAt(pageContent, i, <<"=">> \o o.originalUrl \o <<" ">>)
         THEN <<"=">> \o EncodeSpaces(o.filename) \o <<" ">>
              \o RewrittenFrom(pageContent, o, i + Len(o.originalUrl) + 2)
    ELSE IF OccursAt(pageContent, i, <<"=">> \o o.originalUrl \o <<">">>)
         THEN <<"=">> \o EncodeSpaces(o.filename) \o <<">">>
              \o RewrittenFrom(pageContent, o, i + Len(o.originalUrl) + 2)
    ELSE <<pageContent[i]>> \o RewrittenFrom(pageContent, o, i + 1)

\* C18: for tasks T and O that have filenames, the resolver replaces every
\* occurrence of O.originalUrl in the content of T in the four forms:
\* between double quotes and between single quotes by O.filename as it is,
\* the quotes kept; behind "=" and before a space or ">" by O.filename with
\* %20 for each space, the "=" and the end character kept; all other text is
\* left as it is.
C18_FourForms ==
    rewrite.pc = "rewritten" =>
        rewrite.result =
            RewrittenFrom(RewrittenFrom(rewrite.pageContent, rewrite.tasks[1], 1),
                          rewrite.tasks[2], 1)

\* C13: whenever a task is claimed (its status becomes processing), every
\* task before it in the frontier is processing or processed, whatever the
\* order in which the captures complete.
C13_DispatchInOrder ==
    [][ \A j \in 1..Len(tasks') :
          ( /\ tasks'[j].status = "processing"
            /\ (j > Len(tasks) \/ tasks[j].status = "pending") )
          => \A i \in 1..(j - 1) : tasks'[i].status \in {"processing", "processed"} ]_vars

\* a capture completed before the capture of an earlier task, and its call
\* claimed a later task
C13_Witness ==
    \E i \in Indices : \E j \in Indices : \E k \in Indices :
        /\ i < j /\ j < k
        /\ tasks[i].status = "processing"
        /\ tasks[j].status = "processed"
        /\ tasks[k].status = "processing"
        /\ calls[k].by = j

\* C14: whenever the scheduler waits on captures, either no task is pending
\* or maxParallelWorkers tasks are processing: the tasks a completing capture
\* appends are claimed in the same step, as far as there are free slots.
C14_WorkConserving ==
    pc = "running" =>
        \/ Count(tasks, "pending") = 0
        \/ Count(tasks, "processing") = options.maxParallelWorkers

\* a capture completed and its call claimed a task it appended, while a
\* capture started before is still in flight
C14_Witness ==
    /\ pc = "running"
    /\ \E p \in Indices : \E c \in Indices : \E b \in Indices :
        /\ tasks[p].status = "processed"
        /\ calls[c].foundBy = p
        /\ calls[c].by = p
        /\ tasks[c].status = "processing"
        /\ b # c
        /\ calls[b].foundBy = 0
        /\ tasks[b].status = "processing"

\* C15: every step keeps the entries of the frontier in place and in order,
\* adds tasks at the end only, and leaves url, originalUrl and depth of
\* every task as they are.
C15_AppendOnly ==
    [][ /\ Len(tasks') >= Len(tasks)
        /\ \A i \in 1..Len(tasks) :
            /\ tasks'[i].url = tasks[i].url
            /\ tasks'[i].originalUrl = tasks[i].originalUrl
            /\ tasks'[i].depth = tasks[i].depth ]_vars

\* the frontier grew behind a task whose status and filename were set
C15_Witness ==
    \E i \in Indices : \E j \in Indices :
        /\ i < j
        /\ calls[j].foundBy = i
        /\ tasks[i].status = "processed"
        /\ tasks[i].filename # Undefined
        /\ tasks[j].status = "processed"

\* the host key of a url: its scheme, its credentials when it has some, and
\* its host name, without port and path
HostKey(url) ==
    SubSeq(url, 1, IndexOf(url, ":") + 2)
    \o SubSeq(Authority(url), 1, LastIndexOf(Authority(url), "@"))
    \o Before(HostPort(Authority(url)), ":")

\* C16: with crawlInnerLinksOnly, the url of every task appended for a link
\* of a page starts with the host key of the url of the task of that page.
C16_InnerLinksShareHostKey ==
    (filter.pc = "filtered" /\ filter.options.crawlInnerLinksOnly) =>
        \A k \in 1..Len(filter.newTasks) :
            startsWith(filter.newTasks[k].url, HostKey(filter.task.url))

\* the name the capture of task i asks the allocator for (lines 140 to 144)
DesiredName(i) ==
    IF options.output # Undefined THEN options.output
    ELSE IF options.filenameTemplate THEN PageFilename(tasks[i].url)
    ELSE Undefined

\* the captures of tasks i and j were started by the same runTasks call, in
\* one for loop: both were in flight before either wrote
StartedTogether(i, j) ==
    /\ i # j
    /\ calls[i].pos # "none"
    /\ calls[j].pos # "none"
    /\ calls[i].by = calls[j].by
    /\ DesiredName(i) # Undefined
    /\ DesiredName(i) = DesiredName(j)

\* C17 as stated: when one of two captures in flight together with the same
\* desired name has written its file, the other one, still in flight, can
\* write to the same path and overwrite it.
C17_BothWriteSamePath ==
    \A i, j \in 1..Len(calls) :
        (/\ pc = "running"
         /\ StartedTogether(i, j)
         /\ calls[i].written # Undefined
         /\ calls[j].pos = "getPageData"
         /\ URLParses(tasks[j].url))
        => ENABLED (GetPageDataResolves(j) /\ calls'[j].written = calls[i].written)

\* C17 amended: the probe and the write are one step, and no two captures
\* write to the same path.
C17_DistinctPaths ==
    \A i, j \in 1..Len(calls) :
        (i # j /\ calls[i].written # Undefined /\ calls[j].written # Undefined)
        => calls[i].written # calls[j].written

\* two captures in flight together with the same desired name have both
\* written: one to the desired name, the other to the name with " - 2"
C17_Witness ==
    \E i, j \in 1..Len(calls) :
        /\ StartedTogether(i, j)
        /\ calls[i].written = DesiredName(i)
        /\ calls[j].written = WithSuffix(DesiredName(j), 2)

\* the runs of savePage that are inside processMessage
RunsInFlight == {r \in 1..Len(script.runs) : InFlight(script.runs[r])}

\* a message is delivered in this step
Delivered == script'.received = script.received + 1

\* C19: at most one processMessage run is in flight; a processStart message
\* delivered by either listener while the flag is set, or with a frameId,
\* starts no run and changes nothing; a run starts only in the step that
\* delivers its message, never later from a queue.
C19_SingleFlight ==
    /\ [](script.pc = "loaded" => Cardinality(RunsInFlight) <= 1)
    /\ [][script.pc = "loaded" =>
            /\ (/\ Delivered
                /\ script'.last.message.processStart
                /\ \/ script.processing
                   \/ (script'.last.message.options.defined
                       /\ script'.last.message.options.frameId # 0))
               => (script'.runs = script.runs /\ script'.processing = script.processing)
            /\ Len(script'.runs) > Len(script.runs)
               => (Delivered /\ ~script.processing /\ script'.last.outcome = "started")
        ]_vars

\* a processStart message for the top frame came through the window listener
\* and another through the runtime listener, one of them while a run was in
\* flight: that one was dropped
C19_Witness ==
    /\ script.pc = "loaded"
    /\ Cardinality(RunsInFlight) = 1
    /\ script.processing
    /\ script.received >= 2
    /\ script.last.message.processStart
    /\ script.last.message.options.defined
    /\ script.last.message.options.frameId = 0
    /\ script.last.outcome = "dropped"
    /\ script.last.via # script.runs[Len(script.runs)].via

\* C20: when a run that set the flag finishes, by success or by failure, the
\* flag is false; a processStart message for the top frame that is passed to
\* savePage when no run is in flight starts a run.
C20_FlagCleared ==
    [][script.pc = "loaded" =>
        /\ \A r \in 1..Len(script.runs) :
              (InFlight(script.runs[r]) /\ ~InFlight(script'.runs[r]))
              => ~script'.processing
        /\ (/\ Delivered
            /\ RunsInFlight = {}
            /\ script'.last.outcome # "ignored"
            /\ script'.last.message.processStart
            /\ script'.last.message.options.defined
            /\ script'.last.message.options.frameId = 0)
           => (Len(script'.runs) = Len(script.runs) + 1 /\ script'.processing)
    ]_vars

\* a run succeeded, the next one failed, and a third one was accepted
C20_Witness ==
    /\ script.pc = "loaded"
    /\ Len(script.runs) = 3
    /\ script.runs[1].at = "done"
    /\ script.runs[2].at = "failed"
    /\ InFlight(script.runs[3])
    /\ script.processing

====
